---- MODULE Spec2Model ----
(***************************************************************************)
(* A model of the EBLB level codec of shantae_curse_eblb.py: get_padding,  *)
(* EblbObject.from_bytes / to_bytes, EntranceAndOrExit.bbox / from_bytes / *)
(* to_bytes, ShantaeCurseEblb.check_eblb / __bytes__ / from_eblb_file.     *)
(*                                                                         *)
(* Representation.  A bytes object is a sequence of numbers 0..255.  A str *)
(* is a sequence of code points.  A Python int is an integer, except the   *)
(* values of the struct format 'I' (unsigned 32 bit), which do not fit the *)
(* model checker's integers: such a value v is the pair of 16-bit limbs    *)
(* <<v \div 65536, v % 65536>>.  An exception is a status string naming    *)
(* the exception class.                                                    *)
(***************************************************************************)
EXTENDS Integers, Sequences, FiniteSets, TLC

(***************************************************************************)
(* Bounds of the checked inputs.                                           *)
(***************************************************************************)
MaxPadStrLen == 4
MaxPadStrings == 3
MaxObjects == 2
MaxDoors == 1

(***************************************************************************)
(* struct: little-endian packing and unpacking, with the range checks of   *)
(* struct.pack (struct.error when a value does not fit its format).        *)
(***************************************************************************)
InU8(v) == v >= 0 /\ v <= 255
InU16(v) == v >= 0 /\ v <= 65535
InI16(v) == v >= -32768 /\ v <= 32767
InI32(v) == v >= -2147483647 - 1 /\ v <= 2147483647
InU32(p) == InU16(p[1]) /\ InU16(p[2])

PackU16(v) == << v % 256, v \div 256 >>
UnpackU16(b) == b[1] + 256 * b[2]

PackI16(v) == PackU16(IF v < 0 THEN v + 65536 ELSE v)
UnpackI16(b) == LET u == UnpackU16(b) IN IF u >= 32768 THEN u - 65536 ELSE u

PackU32(p) == PackU16(p[2]) \o PackU16(p[1])
UnpackU32(b) == << UnpackU16(SubSeq(b, 3, 4)), UnpackU16(SubSeq(b, 1, 2)) >>

PackI32(v) ==
    LET u == IF v < 0 THEN (v + 2147483647) + 1 ELSE v
        top == (u \div 16777216) + (IF v < 0 THEN 128 ELSE 0)
    IN  << u % 256, (u \div 256) % 256, (u \div 65536) % 256, top >>
UnpackI32(b) ==
    LET low == b[1] + 256 * b[2] + 65536 * b[3]
    IN  IF b[4] >= 128
        THEN (((b[4] - 128) * 16777216 + low) - 2147483647) - 1
        ELSE b[4] * 16777216 + low

PackBool(f) == << IF f THEN 1 ELSE 0 >>
UnpackBool(x) == x # 0

(***************************************************************************)
(* str.encode('ascii') and bytes.decode('ascii'): the code points below    *)
(* 128 map to themselves, anything else raises.                            *)
(***************************************************************************)
IsAscii(s) == \A i \in 1..Len(s) : s[i] >= 0 /\ s[i] < 128
AsciiEncode(s) == [i \in 1..Len(s) |-> s[i]]
AsciiDecode(b) == [i \in 1..Len(b) |-> b[i]]

RECURSIVE Join(_, _)
Join(sep, parts) ==
    IF Len(parts) = 0 THEN << >>
    ELSE IF Len(parts) = 1 THEN parts[1]
    ELSE parts[1] \o sep \o Join(sep, Tail(parts))

Zeros(n) == [i \in 1..n |-> 0]

(***************************************************************************)
(* get_padding                                                             *)
(***************************************************************************)
get_padding_unguarded(strings) ==
    LET new_bytes == Join(<<0>>, [i \in 1..Len(strings) |-> AsciiEncode(strings[i])]) \o <<0>>
    IN  Zeros(4 - (Len(new_bytes) % 4))
get_padding(strings) ==
    LET new_bytes == Join(<<0>>, [i \in 1..Len(strings) |-> AsciiEncode(strings[i])]) \o <<0>>
        pad_amnt == Len(new_bytes) % 4
    IN  IF pad_amnt # 0 THEN Zeros(4 - pad_amnt) ELSE << >>

(***************************************************************************)
(* Python list indexing (a negative index counts from the end) and         *)
(* list.index (the first position of a value, ValueError when absent).     *)
(* Positions are 0-based as in the source; sequences are 1-based.          *)
(***************************************************************************)
PyIndexOk(list, i) == i >= -Len(list) /\ i < Len(list)
PyIndex(list, i) == IF i < 0 THEN list[Len(list) + i + 1] ELSE list[i + 1]

ListHas(list, x) == \E i \in 1..Len(list) : list[i] = x
ListIndex(list, x) == (CHOOSE i \in 1..Len(list) :
                          list[i] = x /\ \A j \in 1..(i - 1) : list[j] # x) - 1

(***************************************************************************)
(* EblbObject                                                              *)
(***************************************************************************)
NoObject == [none |-> TRUE]

EblbObject_from_bytes_loose(entry, underworld_types) ==
    IF Len(entry) # 20
    THEN [status |-> "ShantaeCurseEblbParsingError", obj |-> NoObject]
    ELSE IF entry[19] + entry[20] # 0
    THEN [status |-> "ShantaeCurseEblbBadData", obj |-> NoObject]
    ELSE LET underworld_type_index == UnpackU16(SubSeq(entry, 1, 2))
         IN  IF ~PyIndexOk(underworld_types, underworld_type_index - 1)
             THEN [status |-> "IndexError", obj |-> NoObject]
             ELSE [status |-> "ok",
                   obj |-> [underworld_type |-> PyIndex(underworld_types, underworld_type_index - 1),
                            x_location |-> UnpackI16(SubSeq(entry, 3, 4)),
                            y_location |-> UnpackI16(SubSeq(entry, 5, 6)),
                            unknown_bool6 |-> UnpackBool(entry[7]),
                            unknown_bool7 |-> UnpackBool(entry[8]),
                            unknown_char8 |-> entry[9],
                            unknown_char9 |-> entry[10],
                            unknown_chara |-> entry[11],
                            unknown_charb |-> entry[12],
                            unknown_shortc |-> UnpackI16(SubSeq(entry, 13, 14)),
                            unknown_inte |-> UnpackU32(SubSeq(entry, 15, 18))]]
EblbObject_from_bytes(entry, underworld_types) ==
    IF Len(entry) # 20
    THEN [status |-> "ShantaeCurseEblbParsingError", obj |-> NoObject]
    ELSE IF entry[7] \notin {0, 1}
    THEN [status |-> "ShantaeCurseEblbParsingError", obj |-> NoObject]
    ELSE IF entry[8] \notin {0, 1}
    THEN [status |-> "ShantaeCurseEblbParsingError", obj |-> NoObject]
    ELSE IF entry[19] + entry[20] # 0
    THEN [status |-> "ShantaeCurseEblbBadData", obj |-> NoObject]
    ELSE LET underworld_type_index == UnpackU16(SubSeq(entry, 1, 2))
         IN  IF ~PyIndexOk(underworld_types, underworld_type_index - 1)
             THEN [status |-> "IndexError", obj |-> NoObject]
             ELSE [status |-> "ok",
                   obj |-> [underworld_type |-> PyIndex(underworld_types, underworld_type_index - 1),
                            x_location |-> UnpackI16(SubSeq(entry, 3, 4)),
                            y_location |-> UnpackI16(SubSeq(entry, 5, 6)),
                            unknown_bool6 |-> UnpackBool(entry[7]),
                            unknown_bool7 |-> UnpackBool(entry[8]),
                            unknown_char8 |-> entry[9],
                            unknown_char9 |-> entry[10],
                            unknown_chara |-> entry[11],
                            unknown_charb |-> entry[12],
                            unknown_shortc |-> UnpackI16(SubSeq(entry, 13, 14)),
                            unknown_inte |-> UnpackU32(SubSeq(entry, 15, 18))]]

EblbObject_packable(o) ==
    /\ InI16(o.x_location) /\ InI16(o.y_location)
    /\ InU8(o.unknown_char8) /\ InU8(o.unknown_char9)
    /\ InU8(o.unknown_chara) /\ InU8(o.unknown_charb)
    /\ InI16(o.unknown_shortc)
    /\ InU32(o.unknown_inte)

EblbObject_to_bytes_swapped(o, underworld_types) ==
    IF ~ListHas(underworld_types, o.underworld_type)
    THEN [status |-> "ValueError", bytes |-> << >>]
    ELSE IF ~(InU16(ListIndex(underworld_types, o.underworld_type) + 1) /\ EblbObject_packable(o))
    THEN [status |-> "struct.error", bytes |-> << >>]
    ELSE [status |-> "ok",
          bytes |-> PackU16(ListIndex(underworld_types, o.underworld_type) + 1)
                    \o PackI16(o.y_location)
                    \o PackI16(o.x_location)
                    \o PackBool(o.unknown_bool6)
                    \o PackBool(o.unknown_bool7)
                    \o << o.unknown_char8, o.unknown_char9, o.unknown_chara, o.unknown_charb >>
                    \o PackI16(o.unknown_shortc)
                    \o PackU32(o.unknown_inte)
                    \o << 0, 0 >>]
EblbObject_to_bytes(o, underworld_types) ==
    IF ~ListHas(underworld_types, o.underworld_type)
    THEN [status |-> "ValueError", bytes |-> << >>]
    ELSE IF ~(InU16(ListIndex(underworld_types, o.underworld_type) + 1) /\ EblbObject_packable(o))
    THEN [status |-> "struct.error", bytes |-> << >>]
    ELSE [status |-> "ok",
          bytes |-> PackU16(ListIndex(underworld_types, o.underworld_type) + 1)
                    \o PackI16(o.x_location)
                    \o PackI16(o.y_location)
                    \o PackBool(o.unknown_bool6)
                    \o PackBool(o.unknown_bool7)
                    \o << o.unknown_char8, o.unknown_char9, o.unknown_chara, o.unknown_charb >>
                    \o PackI16(o.unknown_shortc)
                    \o PackU32(o.unknown_inte)
                    \o << 0, 0 >>]

(***************************************************************************)
(* EntranceAndOrExit                                                       *)
(***************************************************************************)
NoDoor == [none |-> TRUE]
NoSize == << >>

EntranceAndOrExit_bbox(d, image_size) ==
    IF image_size = NoSize
    THEN << << d.x1, d.y2 >>, << d.x2, d.y2 >> >>
    ELSE << << d.x1, image_size[2] - d.y1 >>, << d.x2, image_size[2] - d.y2 >> >>

EntranceAndOrExit_from_bytes(entry, exit_name) ==
    IF Len(entry) # 28
    THEN [status |-> "struct.error", door |-> NoDoor]
    ELSE [status |-> "ok",
          door |-> [x1 |-> UnpackI32(SubSeq(entry, 1, 4)),
                    y1 |-> UnpackI32(SubSeq(entry, 5, 8)),
                    x2 |-> UnpackI32(SubSeq(entry, 9, 12)),
                    y2 |-> UnpackI32(SubSeq(entry, 13, 16)),
                    entrance_id |-> UnpackI32(SubSeq(entry, 17, 20)),
                    exit_type_id |-> UnpackU16(SubSeq(entry, 21, 22)),
                    exit_location_id |-> UnpackU32(SubSeq(entry, 23, 26)),
                    entrance_type_id |-> UnpackU16(SubSeq(entry, 27, 28)),
                    exit_scene_name |-> exit_name]]

EntranceAndOrExit_packable(d) ==
    /\ InI32(d.x1) /\ InI32(d.y1) /\ InI32(d.x2) /\ InI32(d.y2)
    /\ InI32(d.entrance_id)
    /\ InU16(d.exit_type_id)
    /\ InU32(d.exit_location_id)
    /\ InU16(d.entrance_type_id)

EntranceAndOrExit_to_bytes_nopad(d) ==
    IF ~EntranceAndOrExit_packable(d)
    THEN [status |-> "struct.error", bytes |-> << >>]
    ELSE IF ~IsAscii(d.exit_scene_name)
    THEN [status |-> "UnicodeEncodeError", bytes |-> << >>]
    ELSE [status |-> "ok",
          bytes |-> PackI32(d.x1) \o PackI32(d.y1) \o PackI32(d.x2) \o PackI32(d.y2)
                    \o PackI32(d.entrance_id)
                    \o PackU16(d.exit_type_id)
                    \o PackU32(d.exit_location_id)
                    \o PackU16(d.entrance_type_id)
                    \o AsciiEncode(d.exit_scene_name) \o << 0 >>]
EntranceAndOrExit_to_bytes(d) ==
    IF ~EntranceAndOrExit_packable(d)
    THEN [status |-> "struct.error", bytes |-> << >>]
    ELSE IF ~IsAscii(d.exit_scene_name)
    THEN [status |-> "UnicodeEncodeError", bytes |-> << >>]
    ELSE [status |-> "ok",
          bytes |-> PackI32(d.x1) \o PackI32(d.y1) \o PackI32(d.x2) \o PackI32(d.y2)
                    \o PackI32(d.entrance_id)
                    \o PackU16(d.exit_type_id)
                    \o PackU32(d.exit_location_id)
                    \o PackU16(d.entrance_type_id)
                    \o AsciiEncode(d.exit_scene_name) \o << 0 >>
                    \o get_padding(<< d.exit_scene_name >>)]

(***************************************************************************)
(* ShantaeCurseEblb: the Level codec                                       *)
(***************************************************************************)
NoLevel == [none |-> TRUE]

\* b'UNDERWORLD_TYPES_TYP\x00'
UNDERWORLD_TYPES_TYP ==
    << 85, 78, 68, 69, 82, 87, 79, 82, 76, 68, 95, 84, 89, 80, 69, 83, 95, 84, 89, 80, 0 >>
\* UNDERWORLD_TYPES_TYP.removesuffix(b'\x00').decode('ascii')
MagicName == SubSeq(UNDERWORLD_TYPES_TYP, 1, Len(UNDERWORLD_TYPES_TYP) - 1)

RECURSIVE Concat(_)
Concat(parts) == IF Len(parts) = 0 THEN << >> ELSE parts[1] \o Concat(Tail(parts))

\* check_eblb raises ShantaeCurseEblbBadData unless this holds.
check_eblb_skipped(L) == Len(L.tiles) >= 0
check_eblb(L) ==
    \A i \in 1..Len(L.tiles) : Len(L.tiles[i]) = Len(L.tiles[1])

\* {entry.underworld_type for entry in self.objects}
TypeSet(L) == { L.objects[i].underworld_type : i \in 1..Len(L.objects) }
\* list(set): every order of the distinct names is a possible iteration order.
TypeOrders(L) ==
    { t \in [1..Cardinality(TypeSet(L)) -> TypeSet(L)] :
        \A i, j \in 1..Cardinality(TypeSet(L)) : i # j => t[i] # t[j] }

\* The writes of the two loops, up to and including the first failing element:
\* what has reached the BytesIO and how the loop ended.
RECURSIVE WriteObjects(_, _)
WriteObjects(objects, underworld_types) ==
    IF Len(objects) = 0 THEN [status |-> "ok", bytes |-> << >>]
    ELSE LET r == EblbObject_to_bytes(objects[1], underworld_types)
         IN  IF r.status # "ok" THEN r
             ELSE LET rest == WriteObjects(Tail(objects), underworld_types)
                  IN  [status |-> rest.status, bytes |-> r.bytes \o rest.bytes]

RECURSIVE WriteDoors(_)
WriteDoors(doors) ==
    IF Len(doors) = 0 THEN [status |-> "ok", bytes |-> << >>]
    ELSE LET r == EntranceAndOrExit_to_bytes(doors[1])
         IN  IF r.status # "ok" THEN r
             ELSE LET rest == WriteDoors(Tail(doors))
                  IN  [status |-> rest.status, bytes |-> r.bytes \o rest.bytes]

TileBytes(tiles) == Concat(tiles)
TilesAreBytes(tiles) ==
    \A i \in 1..Len(tiles) : \A j \in 1..Len(tiles[i]) : InU8(tiles[i][j])

\* __bytes__ with the set of type names iterated in the order underworld_types.
\* status: how the call ended; written: the contents of the BytesIO at that
\* moment; value: the bytes returned (none unless status is "ok").
ShantaeCurseEblb_bytes(L, underworld_types) ==
    IF ~check_eblb(L)
    THEN [status |-> "ShantaeCurseEblbBadData", written |-> << >>, value |-> << >>]
    ELSE IF Len(L.tiles) = 0
    THEN [status |-> "IndexError", written |-> << >>, value |-> << >>]
    ELSE LET header == PackU16(Len(L.objects)) \o PackU16(1) \o PackU16(Len(L.doors))
                       \o PackU16(Len(underworld_types))
                       \o PackU32(<< 0, Len(L.tiles[1]) >>) \o PackU32(<< 0, Len(L.tiles) >>)
             table  == UNDERWORLD_TYPES_TYP
                       \o Join(<<0>>, [i \in 1..Len(underworld_types) |->
                                          AsciiEncode(underworld_types[i])])
                       \o << 0 >>
                       \o get_padding(<< MagicName >> \o underworld_types)
             objs   == WriteObjects(L.objects, underworld_types)
             camera == PackI32(L.camera_x1) \o PackI32(L.camera_y1)
                       \o PackI32(L.camera_x2) \o PackI32(L.camera_y2) \o PackI32(0)
             doors  == WriteDoors(L.doors)
         IN  IF \E i \in 1..Len(underworld_types) : ~IsAscii(underworld_types[i])
             THEN [status |-> "UnicodeEncodeError", written |-> header, value |-> << >>]
             ELSE IF objs.status # "ok"
             THEN [status |-> objs.status, written |-> header \o table \o objs.bytes,
                   value |-> << >>]
             ELSE IF ~(InI32(L.camera_x1) /\ InI32(L.camera_y1)
                       /\ InI32(L.camera_x2) /\ InI32(L.camera_y2))
             THEN [status |-> "struct.error", written |-> header \o table \o objs.bytes,
                   value |-> << >>]
             ELSE IF doors.status # "ok"
             THEN [status |-> doors.status,
                   written |-> header \o table \o objs.bytes \o camera \o doors.bytes,
                   value |-> << >>]
             ELSE IF ~TilesAreBytes(L.tiles)
             THEN [status |-> "ValueError",
                   written |-> header \o table \o objs.bytes \o camera \o doors.bytes,
                   value |-> << >>]
             ELSE LET all == header \o table \o objs.bytes \o camera \o doors.bytes
                             \o TileBytes(L.tiles)
                  IN  [status |-> "ok", written |-> all, value |-> all]

(***************************************************************************)
(* Reading the file object: read(n) returns what is left, at most n bytes, *)
(* and nothing at or beyond the end; pos counts the bytes consumed.        *)
(***************************************************************************)
Min(a, b) == IF a < b THEN a ELSE b
Read(file, pos, n) ==
    IF pos >= Len(file) THEN << >> ELSE SubSeq(file, pos + 1, Min(pos + n, Len(file)))

\* b''.join(iter(lambda: eblb_file.read(1), b'\x00')): the bytes up to the next
\* zero byte.  When no zero byte is left the iterator consumes the rest of the
\* file and then keeps receiving b'' from read(1), which is not the sentinel.
HasNull(file, pos) == \E i \in (pos + 1)..Len(file) : file[i] = 0
NullAt(file, pos) == CHOOSE i \in (pos + 1)..Len(file) :
                         file[i] = 0 /\ \A j \in (pos + 1)..(i - 1) : file[j] # 0
ReadUntilNull(file, pos) ==
    IF HasNull(file, pos)
    THEN [found |-> TRUE, name |-> SubSeq(file, pos + 1, NullAt(file, pos) - 1),
          pos |-> NullAt(file, pos)]
    ELSE [found |-> FALSE, name |-> Read(file, pos, Len(file)),
          pos |-> IF pos > Len(file) THEN pos ELSE Len(file)]

\* len(self_tiles) == tiles_x * tiles_y for a payload of n < 65536 bytes; the
\* two factors are 32-bit values held as limb pairs.
TilesMatch(n, tiles_x, tiles_y) ==
    IF tiles_x = << 0, 0 >> \/ tiles_y = << 0, 0 >> THEN n = 0
    ELSE IF tiles_x[1] # 0 \/ tiles_y[1] # 0 THEN FALSE
    ELSE IF tiles_x[2] > n \/ tiles_y[2] > n THEN FALSE
    ELSE n = tiles_x[2] * tiles_y[2]

\* [list(self_tiles[i:i+tiles_x]) for i in range(0, len(self_tiles), tiles_x)]
Reshape(self_tiles, width) ==
    [r \in 1..(Len(self_tiles) \div width) |->
        SubSeq(self_tiles, (r - 1) * width + 1, r * width)]

\* One pass of the door loop of from_eblb_file on a file positioned at pos.
DoorRecordDecode(file, pos) ==
    LET door_bytes == Read(file, pos, 28)
        scan == ReadUntilNull(file, pos + Len(door_bytes))
    IN  IF ~scan.found
        THEN [status |-> "reading", door |-> NoDoor, pos |-> scan.pos]
        ELSE IF ~IsAscii(scan.name)
        THEN [status |-> "UnicodeDecodeError", door |-> NoDoor, pos |-> scan.pos]
        ELSE LET r == EntranceAndOrExit_from_bytes(door_bytes, AsciiDecode(scan.name))
             IN  [status |-> r.status, door |-> r.door,
                  pos |-> scan.pos + Len(get_padding(<< AsciiDecode(scan.name) >>))]

(***************************************************************************)
(* The inputs the model is run on.                                         *)
(***************************************************************************)
SeqsUpTo(S, n) == UNION { [1..k -> S] : k \in 0..n }

NameA == << 65 >>
NameBB == << 66, 66 >>

ObjA == [underworld_type |-> NameA, x_location |-> 0, y_location |-> 0,
         unknown_bool6 |-> FALSE, unknown_bool7 |-> FALSE,
         unknown_char8 |-> 0, unknown_char9 |-> 0, unknown_chara |-> 0, unknown_charb |-> 0,
         unknown_shortc |-> 0, unknown_inte |-> << 0, 0 >>]
ObjB == [underworld_type |-> NameBB, x_location |-> -32768, y_location |-> 32767,
         unknown_bool6 |-> TRUE, unknown_bool7 |-> FALSE,
         unknown_char8 |-> 255, unknown_char9 |-> 1, unknown_chara |-> 2, unknown_charb |-> 3,
         unknown_shortc |-> -1, unknown_inte |-> << 65535, 65535 >>]
ObjC == [underworld_type |-> NameA, x_location |-> 258, y_location |-> -2,
         unknown_bool6 |-> FALSE, unknown_bool7 |-> TRUE,
         unknown_char8 |-> 8, unknown_char9 |-> 9, unknown_chara |-> 10, unknown_charb |-> 11,
         unknown_shortc |-> 32767, unknown_inte |-> << 32768, 1 >>]
ObjectPool == { ObjA, ObjB, ObjC }

DoorA == [x1 |-> 10, y1 |-> 20, x2 |-> 30, y2 |-> 40, entrance_id |-> 50,
          exit_type_id |-> 6, exit_location_id |-> << 0, 7 >>, entrance_type_id |-> 8,
          exit_scene_name |-> << 66 >>]
DoorB == [x1 |-> -2147483647 - 1, y1 |-> 2147483647, x2 |-> -1, y2 |-> 0, entrance_id |-> -1,
          exit_type_id |-> 65535, exit_location_id |-> << 65535, 65535 >>,
          entrance_type_id |-> 65535, exit_scene_name |-> << >>]
DoorPool == { DoorA, DoorB }

CameraPool == { << 0, 0, 10, 10 >>, << -1, 16777216, 2147483647, -2147483647 - 1 >> }

TilePool == { << >>, << << >> >>, << << 7 >> >>, << << 1, 2 >>, << 3, 4 >> >>,
              << << 1, 2 >>, << 3 >> >>, << << 1 >>, << 2 >>, << 3, 4 >> >>,
              << << 0, 256 >> >> }

Levels ==
    { [objects |-> os, doors |-> ds,
       camera_x1 |-> c[1], camera_y1 |-> c[2], camera_x2 |-> c[3], camera_y2 |-> c[4],
       tiles |-> t] :
         os \in SeqsUpTo(ObjectPool, MaxObjects), ds \in SeqsUpTo(DoorPool, MaxDoors),
         c \in CameraPool, t \in TilePool }

\* Buffers handed to from_eblb_file.  A well-formed buffer with no object and
\* no door, a type table of the given names, a camera block and a tile payload.
PlainBuffer(names, c, w, h, payload) ==
    PackU16(0) \o PackU16(1) \o PackU16(0) \o PackU16(Len(names))
    \o PackU32(<< 0, w >>) \o PackU32(<< 0, h >>)
    \o UNDERWORLD_TYPES_TYP
    \o Concat([i \in 1..Len(names) |-> AsciiEncode(names[i]) \o << 0 >>])
    \o get_padding(<< MagicName >> \o names)
    \o PackI32(c[1]) \o PackI32(c[2]) \o PackI32(c[3]) \o PackI32(c[4]) \o PackI32(0)
    \o payload

PlainBuffers ==
    { PlainBuffer(ns, c, g[1], g[2], g[3]) :
        ns \in { << NameA >>, << NameBB >>, << << >> >>, << >>, << NameA, NameBB >> },
        c \in CameraPool,
        g \in { << 2, 2, << 1, 2, 3, 4 >> >>, << 1, 1, << 7 >> >>, << 3, 1, << 1, 2, 3 >> >>,
                << 0, 1, << >> >>, << 1, 0, << >> >> } }

\* A file with one object, one door and one type name, as __bytes__ writes it.
FullLevel == [objects |-> << ObjC >>, doors |-> << DoorA >>,
              camera_x1 |-> 0, camera_y1 |-> 0, camera_x2 |-> 10, camera_y2 |-> 10,
              tiles |-> << << 1, 2 >>, << 3, 4 >> >>]
FullBuffer == ShantaeCurseEblb_bytes(FullLevel, << NameA >>).value
ExampleBuffer == PlainBuffer(<< NameA >>, << 0, 0, 10, 10 >>, 2, 2, << 1, 2, 3, 4 >>)

\* Damaged files: one byte of a file replaced, or the file cut short.
ByteValues == { 0, 1, 2, 200, 255 }
Damaged(b) ==
    { [b EXCEPT ![i] = v] : i \in 1..Len(b), v \in ByteValues }
    \cup { SubSeq(b, 1, n) : n \in 0..Len(b) }
DamagedBuffers == Damaged(FullBuffer) \cup Damaged(ExampleBuffer)

\* Inputs of the calls made on single records.
PadStrings == { [i \in 1..n |-> 97] : n \in 0..MaxPadStrLen }
PadInputs == SeqsUpTo(PadStrings, MaxPadStrings)

TableInputs == { << >>, << NameA >>, << NameA, NameBB >>, << NameBB, NameA >> }

ObjectInputs ==
    { [underworld_type |-> t, x_location |-> x, y_location |-> y,
       unknown_bool6 |-> b, unknown_bool7 |-> ~b,
       unknown_char8 |-> 0, unknown_char9 |-> 255, unknown_chara |-> k, unknown_charb |-> 128,
       unknown_shortc |-> sh, unknown_inte |-> n] :
         t \in { NameA, NameBB }, x \in { -32768, 258 }, y \in { 32767, -1 },
         b \in BOOLEAN, k \in { 1, 256 },
         sh \in { 0, 32767, 32768, 40000, 65535, -1, -32768 },
         n \in { << 0, 0 >>, << 1, 2 >>, << 32768, 0 >>, << 65535, 65535 >>, << 65536, 0 >> } }

EntryBase == EblbObject_to_bytes(ObjB, << NameA, NameBB >>).bytes
EntryInputs ==
    { [EntryBase EXCEPT ![i] = v] : i \in 1..Len(EntryBase), v \in ByteValues }
    \cup { SubSeq(EntryBase, 1, n) : n \in { 0, 19 } }
    \cup { EntryBase \o << 0 >> }

DoorInputs ==
    { [x1 |-> a, y1 |-> b, x2 |-> 30, y2 |-> c, entrance_id |-> e,
       exit_type_id |-> xt, exit_location_id |-> xl, entrance_type_id |-> et,
       exit_scene_name |-> nm] :
         a \in { 10, -2147483647 - 1 }, b \in { 20, 2147483647 }, c \in { 40, -1 },
         e \in { 50, 65535, 70000, -1 }, xt \in { 6, 65535, 70000 },
         xl \in { << 0, 7 >>, << 0, 65535 >>, << 1, 0 >>, << 65535, 65535 >> },
         et \in { 8, 65535 },
         nm \in { << >>, << 66 >>, << 66, 67 >>, << 66, 67, 68 >>, << 66, 67, 68, 69 >>,
                  << 66, 0, 67 >>, << 200 >> } }

BboxDoors ==
    { [x1 |-> a, y1 |-> b, x2 |-> c, y2 |-> d, entrance_id |-> 50,
       exit_type_id |-> 6, exit_location_id |-> << 0, 7 >>, entrance_type_id |-> 8,
       exit_scene_name |-> << 66 >>] :
         a \in { 10, -5 }, b \in { 20, 0, 40 }, c \in { 30, 7 }, d \in { 40, -3 } }
SizeInputs == { NoSize, << 64, 100 >>, << 32, 16 >> }

(***************************************************************************)
(* State.  input is what the run was started on; level is the Level object *)
(* in memory and file the contents of the file object; pc, pos and the     *)
(* variables named as in from_eblb_file are the position and locals of the *)
(* decoder; tick is the parity of the read(1) calls made at end of file;   *)
(* enc is how the last __bytes__ call ended, dec how from_eblb_file ended  *)
(* and decoded what it returned; mid and ret hold the results of the calls *)
(* made on single records.                                                 *)
(***************************************************************************)
VARIABLES input, pc, todo, level, file, pos, hdr, underworld_types, self_objects,
          camera, self_doors, self_tiles, tick, enc, dec, decoded, mid, ret

vars == << input, pc, todo, level, file, pos, hdr, underworld_types, self_objects,
           camera, self_doors, self_tiles, tick, enc, dec, decoded, mid, ret >>
locals == << hdr, underworld_types, self_objects, camera, self_doors, self_tiles >>

NoHeader == [none |-> TRUE]
NoCamera == [none |-> TRUE]
NoTiles == [none |-> TRUE]
NoEnc == [status |-> "none", written |-> << >>, value |-> << >>]
NoResult == [status |-> "none"]

Blank ==
    /\ todo = << >>
    /\ level = NoLevel /\ file = << >> /\ pos = 0
    /\ hdr = NoHeader /\ underworld_types = << >> /\ self_objects = << >>
    /\ camera = NoCamera /\ self_doors = << >> /\ self_tiles = NoTiles
    /\ tick = 0 /\ enc = NoEnc /\ dec = "none" /\ decoded = NoLevel
    /\ mid = NoResult /\ ret = NoResult

InitLevel ==
    /\ \E L \in Levels : input = [kind |-> "level", level |-> L]
    /\ pc = "bytes" /\ todo = << "decode" >>
    /\ level = input.level /\ file = << >> /\ pos = 0
    /\ hdr = NoHeader /\ underworld_types = << >> /\ self_objects = << >>
    /\ camera = NoCamera /\ self_doors = << >> /\ self_tiles = NoTiles
    /\ tick = 0 /\ enc = NoEnc /\ dec = "none" /\ decoded = NoLevel
    /\ mid = NoResult /\ ret = NoResult

InitBuffer ==
    /\ \E b \in PlainBuffers \cup DamagedBuffers : input = [kind |-> "buffer", buffer |-> b]
    /\ pc = "Header" /\ todo = << "bytes" >>
    /\ level = NoLevel /\ file = input.buffer /\ pos = 0
    /\ hdr = NoHeader /\ underworld_types = << >> /\ self_objects = << >>
    /\ camera = NoCamera /\ self_doors = << >> /\ self_tiles = NoTiles
    /\ tick = 0 /\ enc = NoEnc /\ dec = "none" /\ decoded = NoLevel
    /\ mid = NoResult /\ ret = NoResult

InitUnit ==
    /\ \/ \E ss \in PadInputs : input = [kind |-> "get_padding", strings |-> ss]
       \/ \E e \in EntryInputs, t \in TableInputs :
              input = [kind |-> "object_from_bytes", entry |-> e, underworld_types |-> t]
       \/ \E o \in ObjectInputs, t \in TableInputs :
              input = [kind |-> "object_to_bytes", obj |-> o, underworld_types |-> t]
       \/ \E d \in BboxDoors, sz \in SizeInputs :
              input = [kind |-> "door_bbox", door |-> d, image_size |-> sz]
       \/ \E d \in DoorInputs : input = [kind |-> "door_to_bytes", door |-> d]
    /\ pc = "call"
    /\ Blank

Init == InitLevel \/ InitBuffer \/ InitUnit

(***************************************************************************)
(* Calls on single records.                                                *)
(***************************************************************************)
GetPadding ==
    /\ pc = "call" /\ input.kind = "get_padding"
    /\ ret' = [status |-> "ok", bytes |-> get_padding(input.strings)]
    /\ pc' = "returned"
    /\ UNCHANGED << input, todo, level, file, pos, locals, tick, enc, dec, decoded, mid >>

ObjectFromBytes ==
    /\ pc = "call" /\ input.kind = "object_from_bytes"
    /\ ret' = EblbObject_from_bytes(input.entry, input.underworld_types)
    /\ pc' = IF ret'.status = "ok" THEN "returned" ELSE "raised"
    /\ UNCHANGED << input, todo, level, file, pos, locals, tick, enc, dec, decoded, mid >>

\* to_bytes, and then from_bytes on what it returned, with the same table.
ObjectToBytes ==
    /\ pc = "call" /\ input.kind = "object_to_bytes"
    /\ mid' = EblbObject_to_bytes(input.obj, input.underworld_types)
    /\ pc' = IF mid'.status = "ok" THEN "call2" ELSE "raised"
    /\ UNCHANGED << input, todo, level, file, pos, locals, tick, enc, dec, decoded, ret >>

ObjectBack ==
    /\ pc = "call2" /\ input.kind = "object_to_bytes"
    /\ ret' = EblbObject_from_bytes(mid.bytes, input.underworld_types)
    /\ pc' = IF ret'.status = "ok" THEN "returned" ELSE "raised"
    /\ UNCHANGED << input, todo, level, file, pos, locals, tick, enc, dec, decoded, mid >>

DoorBbox ==
    /\ pc = "call" /\ input.kind = "door_bbox"
    /\ ret' = [status |-> "ok", bbox |-> EntranceAndOrExit_bbox(input.door, input.image_size)]
    /\ pc' = "returned"
    /\ UNCHANGED << input, todo, level, file, pos, locals, tick, enc, dec, decoded, mid >>

\* to_bytes, and then the door loop of from_eblb_file on what it returned.
DoorToBytes ==
    /\ pc = "call" /\ input.kind = "door_to_bytes"
    /\ mid' = EntranceAndOrExit_to_bytes(input.door)
    /\ pc' = IF mid'.status = "ok" THEN "call2" ELSE "raised"
    /\ UNCHANGED << input, todo, level, file, pos, locals, tick, enc, dec, decoded, ret >>

DoorBack ==
    /\ pc = "call2" /\ input.kind = "door_to_bytes"
    /\ ret' = DoorRecordDecode(mid.bytes, 0)
    /\ pc' = IF ret'.status = "ok" THEN "returned" ELSE "raised"
    /\ UNCHANGED << input, todo, level, file, pos, locals, tick, enc, dec, decoded, mid >>

(***************************************************************************)
(* __bytes__: one call, with the type names in any order of the set.  The  *)
(* bytes returned become the contents of the file decoded next.            *)
(***************************************************************************)
Bytes ==
    /\ pc = "bytes"
    /\ \E t \in TypeOrders(level) : enc' = ShantaeCurseEblb_bytes(level, t)
    /\ IF enc'.status # "ok"
       THEN pc' = "raised" /\ UNCHANGED << todo, file >>
       ELSE IF todo = << >>
       THEN pc' = "returned" /\ UNCHANGED << todo, file >>
       ELSE pc' = "Header" /\ todo' = Tail(todo) /\ file' = enc'.value
    /\ UNCHANGED << input, level, pos, locals, tick, dec, decoded, mid, ret >>

(***************************************************************************)
(* from_eblb_file, one action per region of the file.                      *)
(***************************************************************************)
Raise(e) ==
    /\ pc' = "raised" /\ dec' = e
    /\ UNCHANGED << todo, level, decoded >>

ReadHeader ==
    /\ pc = "Header"
    /\ LET data == Read(file, 0, 16)
       IN  /\ pos' = Len(data)
           /\ IF Len(data) # 16
              THEN Raise("struct.error") /\ UNCHANGED hdr
              ELSE /\ hdr' = [objects_count |-> UnpackU16(SubSeq(data, 1, 2)),
                              unknown_short |-> UnpackU16(SubSeq(data, 3, 4)),
                              doors_count |-> UnpackU16(SubSeq(data, 5, 6)),
                              underworld_types_count |-> UnpackU16(SubSeq(data, 7, 8)),
                              tiles_x |-> UnpackU32(SubSeq(data, 9, 12)),
                              tiles_y |-> UnpackU32(SubSeq(data, 13, 16))]
                   /\ IF hdr'.unknown_short # 1
                      THEN Raise("ShantaeCurseEblbParsingError")
                      ELSE pc' = "Magic" /\ UNCHANGED << todo, level, decoded, dec >>
    /\ UNCHANGED << input, file, underworld_types, self_objects, camera, self_doors,
                    self_tiles, tick, enc, mid, ret >>

ReadMagic ==
    /\ pc = "Magic"
    /\ LET data == Read(file, pos, Len(UNDERWORLD_TYPES_TYP))
       IN  /\ pos' = pos + Len(data)
           /\ IF data # UNDERWORLD_TYPES_TYP
              THEN Raise("ShantaeCurseEblbParsingError")
              ELSE pc' = "Types" /\ UNCHANGED << todo, level, decoded, dec >>
    /\ UNCHANGED << input, file, locals, tick, enc, mid, ret >>

ReadTypeName ==
    /\ pc = "Types"
    /\ Len(underworld_types) < hdr.underworld_types_count
    /\ LET scan == ReadUntilNull(file, pos)
       IN  /\ pos' = scan.pos
           /\ IF ~scan.found
              THEN pc' = "TypeNameEOF" /\ UNCHANGED << underworld_types, todo, level, decoded, dec >>
              ELSE IF ~IsAscii(scan.name)
              THEN Raise("UnicodeDecodeError") /\ UNCHANGED underworld_types
              ELSE /\ underworld_types' = Append(underworld_types, AsciiDecode(scan.name))
                   /\ UNCHANGED << pc, todo, level, decoded, dec >>
    /\ UNCHANGED << input, file, hdr, self_objects, camera, self_doors, self_tiles,
                    tick, enc, mid, ret >>

\* The file is exhausted and no zero byte was met: read(1) returns b'', which
\* is not the sentinel b'\x00', and the iterator asks again.
SpinTypeName ==
    /\ pc = "TypeNameEOF"
    /\ Read(file, pos, 1) = << >>
    /\ tick' = 1 - tick
    /\ UNCHANGED << input, pc, todo, level, file, pos, locals, enc, dec, decoded, mid, ret >>

SkipTypePadding ==
    /\ pc = "Types"
    /\ Len(underworld_types) = hdr.underworld_types_count
    /\ pos' = pos + Len(get_padding(<< MagicName >> \o underworld_types))
    /\ pc' = "Objects"
    /\ UNCHANGED << input, todo, level, file, locals, tick, enc, dec, decoded, mid, ret >>

ReadObject ==
    /\ pc = "Objects"
    /\ Len(self_objects) < hdr.objects_count
    /\ LET entry == Read(file, pos, 20)
           r == EblbObject_from_bytes(entry, underworld_types)
       IN  /\ pos' = pos + Len(entry)
           /\ IF r.status # "ok"
              THEN Raise(r.status) /\ UNCHANGED self_objects
              ELSE /\ self_objects' = Append(self_objects, r.obj)
                   /\ UNCHANGED << pc, todo, level, decoded, dec >>
    /\ UNCHANGED << input, file, hdr, underworld_types, camera, self_doors, self_tiles,
                    tick, enc, mid, ret >>

ReadCamera ==
    /\ pc = "Objects"
    /\ Len(self_objects) = hdr.objects_count
    /\ LET data == Read(file, pos, 20)
       IN  /\ pos' = pos + Len(data)
           /\ IF Len(data) # 20
              THEN Raise("struct.error") /\ UNCHANGED camera
              ELSE /\ camera' = [x1 |-> UnpackI32(SubSeq(data, 1, 4)),
                                 y1 |-> UnpackI32(SubSeq(data, 5, 8)),
                                 x2 |-> UnpackI32(SubSeq(data, 9, 12)),
                                 y2 |-> UnpackI32(SubSeq(data, 13, 16)),
                                 unknown_int_should_be_0 |-> UnpackI32(SubSeq(data, 17, 20))]
                   /\ IF camera'.unknown_int_should_be_0 # 0
                      THEN Raise("ShantaeCurseEblbParsingError")
                      ELSE pc' = "Doors" /\ UNCHANGED << todo, level, decoded, dec >>
    /\ UNCHANGED << input, file, hdr, underworld_types, self_objects, self_doors,
                    self_tiles, tick, enc, mid, ret >>

ReadDoor ==
    /\ pc = "Doors"
    /\ Len(self_doors) < hdr.doors_count
    /\ LET r == DoorRecordDecode(file, pos)
       IN  /\ pos' = r.pos
           /\ IF r.status = "reading"
              THEN pc' = "DoorNameEOF" /\ UNCHANGED << self_doors, todo, level, decoded, dec >>
              ELSE IF r.status # "ok"
              THEN Raise(r.status) /\ UNCHANGED self_doors
              ELSE /\ self_doors' = Append(self_doors, r.door)
                   /\ UNCHANGED << pc, todo, level, decoded, dec >>
    /\ UNCHANGED << input, file, hdr, underworld_types, self_objects, camera, self_tiles,
                    tick, enc, mid, ret >>

SpinDoorName ==
    /\ pc = "DoorNameEOF"
    /\ Read(file, pos, 1) = << >>
    /\ tick' = 1 - tick
    /\ UNCHANGED << input, pc, todo, level, file, pos, locals, enc, dec, decoded, mid, ret >>

\* The tile grid, the final seek(0) and the return of the Level.
ReadTiles ==
    /\ pc = "Doors"
    /\ Len(self_doors) = hdr.doors_count
    /\ LET data == Read(file, pos, Len(file))
           L == [objects |-> self_objects, doors |-> self_doors,
                 camera_x1 |-> camera.x1, camera_y1 |-> camera.y1,
                 camera_x2 |-> camera.x2, camera_y2 |-> camera.y2,
                 tiles |-> Reshape(data, hdr.tiles_x[2])]
       IN  /\ self_tiles' = [raw |-> data]
           /\ IF ~TilesMatch(Len(data), hdr.tiles_x, hdr.tiles_y)
              THEN Raise("ShantaeCurseEblbBadData") /\ pos' = pos + Len(data)
              ELSE IF hdr.tiles_x = << 0, 0 >>
              THEN Raise("ValueError") /\ pos' = pos + Len(data)
              ELSE /\ pos' = 0
                   /\ dec' = "ok"
                   /\ decoded' = L
                   /\ level' = IF input.kind = "buffer" THEN L ELSE level
                   /\ IF todo = << >>
                      THEN pc' = "returned" /\ UNCHANGED todo
                      ELSE pc' = "bytes" /\ todo' = Tail(todo)
    /\ UNCHANGED << input, file, hdr, underworld_types, self_objects, camera, self_doors,
                    tick, enc, mid, ret >>

Next ==
    \/ GetPadding \/ ObjectFromBytes \/ ObjectToBytes \/ ObjectBack
    \/ DoorBbox \/ DoorToBytes \/ DoorBack
    \/ Bytes
    \/ ReadHeader \/ ReadMagic \/ ReadTypeName \/ SpinTypeName \/ SkipTypePadding
    \/ ReadObject \/ ReadCamera \/ ReadDoor \/ SpinDoorName \/ ReadTiles

Spec == Init /\ [][Next]_vars

\* from_eblb_file and __bytes__ run to completion once called: the interpreter
\* keeps executing the call.
FairSpec == Spec /\ WF_vars(Next)

Finished == pc \in { "returned", "raised" }

(***************************************************************************)
(* Properties.                                                             *)
(***************************************************************************)
CodecErrors == { "ShantaeCurseEblbParsingError", "ShantaeCurseEblbBadData" }

ValidName(nm) == \A i \in 1..Len(nm) : nm[i] > 0 /\ nm[i] < 128

RECURSIVE SumLen(_)
SumLen(strings) == IF Len(strings) = 0 THEN 0 ELSE Len(strings[1]) + SumLen(Tail(strings))

\* A Level the round trip is claimed for: rectangular tiles and valid type
\* names; here also with at least one tile, byte-sized tiles and fields that
\* fit their formats, so that nothing but the codec decides the outcome.
RoundTripLevel(L) ==
    /\ \A i \in 1..Len(L.tiles) : Len(L.tiles[i]) = Len(L.tiles[1])
    /\ Len(L.tiles) > 0 /\ Len(L.tiles[1]) > 0
    /\ TilesAreBytes(L.tiles)
    /\ \A i \in 1..Len(L.objects) :
          ValidName(L.objects[i].underworld_type) /\ EblbObject_packable(L.objects[i])
    /\ \A i \in 1..Len(L.doors) :
          ValidName(L.doors[i].exit_scene_name) /\ EntranceAndOrExit_packable(L.doors[i])

\* C1: decoding the bytes produced by encoding a Level with rectangular tiles
\* and valid type names, a Level with zero objects included, succeeds and
\* yields a Level equal to the original, whatever the order of the type table.
C1_RoundTrip ==
    (input.kind = "level" /\ RoundTripLevel(input.level) /\ Finished)
        => /\ enc.status = "ok"
           /\ dec = "ok"
           /\ decoded = input.level

\* The buffers of the end-to-end case: no object, no door, one table entry, a
\* valid camera block and width * height tile bytes, both at least 1.
EndToEndBuffers ==
    { PlainBuffer(<< nm >>, c, g[1], g[2], g[3]) :
        nm \in { NameA, NameBB, << >> }, c \in CameraPool,
        g \in { << 2, 2, << 1, 2, 3, 4 >> >>, << 1, 1, << 7 >> >>, << 3, 1, << 1, 2, 3 >> >> } }

\* C2: decoding a well-formed buffer with no object, no door and a one-entry
\* type table, and re-encoding the Level, reproduces the buffer byte for byte.
C2_ByteIdentity ==
    (input.kind = "buffer" /\ input.buffer \in EndToEndBuffers /\ Finished)
        => /\ dec = "ok"
           /\ enc.status = "ok"
           /\ enc.value = input.buffer

\* C3: get_padding returns p zero bytes, 0 <= p <= 3, the least p that makes
\* (lengths + separators between consecutive strings + terminator + p) a
\* multiple of 4.
C3_PaddingCorrect ==
    (input.kind = "get_padding" /\ pc = "returned")
        => LET n == SumLen(input.strings)
                    + (IF Len(input.strings) = 0 THEN 0 ELSE Len(input.strings) - 1) + 1
               p == Len(ret.bytes)
           IN  /\ \A i \in 1..p : ret.bytes[i] = 0
               /\ p >= 0 /\ p <= 3
               /\ (n + p) % 4 = 0
               /\ \A q \in 0..(p - 1) : (n + q) % 4 # 0

C3_Witness ==
    /\ input.kind = "get_padding" /\ pc = "returned"
    /\ Len(input.strings) = 3
    /\ input.strings[2] = << >>
    /\ Len(input.strings[1]) = 2
    /\ ret.bytes = << >>

\* An otherwise valid 20-byte object record.
WellFormedEntry(entry) ==
    /\ Len(entry) = 20
    /\ entry[7] \in { 0, 1 } /\ entry[8] \in { 0, 1 }
    /\ entry[19] = 0 /\ entry[20] = 0

\* C4: an otherwise valid object record whose type index is not in 1..N (index
\* 0 in particular) is rejected and never resolved to a table entry.
C4_BadIndexRejected ==
    (/\ input.kind = "object_from_bytes" /\ pc # "call"
     /\ WellFormedEntry(input.entry)
     /\ LET index == input.entry[1] + 256 * input.entry[2]
        IN  index < 1 \/ index > Len(input.underworld_types))
        => /\ pc = "raised"
           /\ ret.status # "ok"
           /\ ret.obj = NoObject

\* len(self_tiles) == tiles_x * tiles_y, for the payload and header read.
TileCountAgrees ==
    LET n == Len(self_tiles.raw)
        w == hdr.tiles_x
        h == hdr.tiles_y
    IN  \/ (w = << 0, 0 >> \/ h = << 0, 0 >>) /\ n = 0
        \/ /\ w[1] = 0 /\ h[1] = 0
           /\ \E a, b \in 1..n : a = w[2] /\ b = h[2] /\ a * b = n

\* C5: decoding raises a codec error and produces no Object or Level when an
\* object record is not 20 bytes long, when byte 6 or 7 of it is not 0 or 1,
\* when byte 18 or 19 of it is not 0, when the header sentinel is not 1, when
\* the fifth field of the camera block is not 0, and when the bytes left after
\* the doors are not width * height.
C5_RejectionCases ==
    /\ (/\ input.kind = "object_from_bytes" /\ pc # "call"
        /\ ~WellFormedEntry(input.entry))
          => /\ pc = "raised"
             /\ ret.status \in CodecErrors
             /\ ret.obj = NoObject
    /\ (hdr # NoHeader /\ hdr.unknown_short # 1)
          => /\ pc = "raised"
             /\ dec = "ShantaeCurseEblbParsingError"
             /\ decoded = NoLevel
    /\ (camera # NoCamera /\ camera.unknown_int_should_be_0 # 0)
          => /\ pc = "raised"
             /\ dec = "ShantaeCurseEblbParsingError"
             /\ decoded = NoLevel
    /\ (self_tiles # NoTiles /\ ~TileCountAgrees)
          => /\ pc = "raised"
             /\ dec = "ShantaeCurseEblbBadData"
             /\ decoded = NoLevel

C5_Witness ==
    /\ input.kind = "buffer"
    /\ self_tiles # NoTiles /\ ~TileCountAgrees
    /\ Len(self_objects) = 1 /\ Len(self_doors) = 1
    /\ pc = "raised" /\ dec = "ShantaeCurseEblbBadData"

\* C6: bbox() without an image size returns ((x1,y1),(x2,y2)); with an image
\* of height H it returns ((x1,H-y1),(x2,H-y2)).
C6_DoorGeometry ==
    (input.kind = "door_bbox" /\ pc = "returned")
        => LET d == input.door
           IN  ret.bbox = IF input.image_size = NoSize
                          THEN << << d.x1, d.y1 >>, << d.x2, d.y2 >> >>
                          ELSE << << d.x1, input.image_size[2] - d.y1 >>,
                                  << d.x2, input.image_size[2] - d.y2 >> >>

\* C7: __bytes__ on a Level with a row whose length differs from that of row
\* 0 raises the bad-data error of the rectangularity check before anything
\* is written, returns no bytes and leaves the Level as it was.
C7_AtomicEncodeFailure ==
    (/\ enc.status # "none"
     /\ \E i \in 1..Len(level.tiles) : Len(level.tiles[i]) # Len(level.tiles[1]))
        => /\ pc = "raised"
           /\ enc.status = "ShantaeCurseEblbBadData"
           /\ enc.written = << >>
           /\ enc.value = << >>
           /\ file = << >>
           /\ level = input.level

C7_Witness ==
    /\ enc.status = "ShantaeCurseEblbBadData"
    /\ Len(level.tiles) = 3
    /\ Len(level.tiles[3]) # Len(level.tiles[1])
    /\ Len(level.objects) = 2 /\ Len(level.doors) = 1

\* What to_bytes of a door must return: a 28-byte head, the name, a zero byte
\* and the fewest zero bytes that make the length a multiple of 4.
DoorTail(d, bytes) ==
    /\ Len(bytes) >= 28 + Len(d.exit_scene_name) + 1
    /\ Len(bytes) <= 28 + Len(d.exit_scene_name) + 4
    /\ Len(bytes) % 4 = 0
    /\ SubSeq(bytes, 29, 28 + Len(d.exit_scene_name)) = d.exit_scene_name
    /\ \A i \in (29 + Len(d.exit_scene_name))..Len(bytes) : bytes[i] = 0

\* C8 as stated: corners i32, entrance_id u16, exit_type_id u32,
\* exit_location_id u16, entrance_type_id u16, a null-free ASCII name: to_bytes
\* succeeds, and decoding its bytes returns the door.
C8_DoorLayoutAsStated ==
    (/\ input.kind = "door_to_bytes" /\ pc # "call"
     /\ InU16(input.door.entrance_id)
     /\ input.door.exit_type_id >= 0
     /\ input.door.exit_location_id[1] = 0 /\ InU16(input.door.exit_location_id[2])
     /\ InU16(input.door.entrance_type_id)
     /\ ValidName(input.door.exit_scene_name))
        => /\ mid.status = "ok"
           /\ DoorTail(input.door, mid.bytes)
           /\ pc # "call2" => (ret.status = "ok" /\ ret.door = input.door)

\* C8, amended: for corners and entrance_id i32, exit_type_id u16,
\* exit_location_id u32, entrance_type_id u16 and a null-free ASCII name,
\* to_bytes succeeds and returns a 28-byte head of i32 x 5, u16, u32, u16 in
\* that order, the name, a zero byte and align-4 padding, and decoding those
\* bytes consumes them all and returns a door equal to the original.
C8_DoorLayout ==
    (/\ input.kind = "door_to_bytes" /\ pc # "call"
     /\ InI32(input.door.x1) /\ InI32(input.door.y1)
     /\ InI32(input.door.x2) /\ InI32(input.door.y2)
     /\ InI32(input.door.entrance_id)
     /\ InU16(input.door.exit_type_id)
     /\ InU16(input.door.exit_location_id[1]) /\ InU16(input.door.exit_location_id[2])
     /\ InU16(input.door.entrance_type_id)
     /\ ValidName(input.door.exit_scene_name))
        => /\ mid.status = "ok"
           /\ DoorTail(input.door, mid.bytes)
           /\ mid.bytes[21] + 256 * mid.bytes[22] = input.door.exit_type_id
           /\ mid.bytes[23] + 256 * mid.bytes[24] = input.door.exit_location_id[2]
           /\ mid.bytes[25] + 256 * mid.bytes[26] = input.door.exit_location_id[1]
           /\ mid.bytes[27] + 256 * mid.bytes[28] = input.door.entrance_type_id
           /\ \A k \in 0..4 :
                LET v == << input.door.x1, input.door.y1, input.door.x2, input.door.y2,
                            input.door.entrance_id >>[k + 1]
                IN  /\ (v < 0) = (mid.bytes[4 * k + 4] >= 128)
                    /\ (v >= 0 /\ v < 256) =>
                          SubSeq(mid.bytes, 4 * k + 1, 4 * k + 4) = << v, 0, 0, 0 >>
           /\ input.door = [DoorA EXCEPT !.exit_scene_name = << 66 >>] =>
                 mid.bytes = << 10, 0, 0, 0, 20, 0, 0, 0, 30, 0, 0, 0, 40, 0, 0, 0,
                                50, 0, 0, 0, 6, 0, 7, 0, 0, 0, 8, 0, 66, 0, 0, 0 >>
           /\ pc # "call2" =>
                 /\ pc = "returned"
                 /\ ret.status = "ok"
                 /\ ret.door = input.door
                 /\ ret.pos = Len(mid.bytes)

C8_Witness ==
    /\ input.kind = "door_to_bytes" /\ pc = "returned"
    /\ input.door.entrance_id = -1
    /\ input.door.x1 = -2147483647 - 1
    /\ input.door.exit_type_id = 65535
    /\ input.door.exit_location_id = << 65535, 65535 >>
    /\ Len(input.door.exit_scene_name) = 3
    /\ ret.door = input.door

\* The fields of an object that C9 bounds the same way as the source does.
ObjectFieldsFit(o, table) ==
    /\ ListHas(table, o.underworld_type)
    /\ InI16(o.x_location) /\ InI16(o.y_location)
    /\ InU8(o.unknown_char8) /\ InU8(o.unknown_char9)
    /\ InU8(o.unknown_chara) /\ InU8(o.unknown_charb)
    /\ InU16(o.unknown_inte[1]) /\ InU16(o.unknown_inte[2])

\* C9 as stated: with the 16-bit unknown any value in 0..65535, to_bytes
\* succeeds with 20 bytes ending in two zero bytes, and from_bytes of them
\* with the same table returns the object.
C9_ObjectLayoutAsStated ==
    (/\ input.kind = "object_to_bytes" /\ pc # "call"
     /\ ObjectFieldsFit(input.obj, input.underworld_types)
     /\ InU16(input.obj.unknown_shortc))
        => /\ mid.status = "ok"
           /\ Len(mid.bytes) = 20
           /\ mid.bytes[19] = 0 /\ mid.bytes[20] = 0
           /\ pc # "call2" => (ret.status = "ok" /\ ret.obj = input.obj)

\* C9, amended: with the 16-bit unknown a signed value in -32768..32767 (and
\* the other fields as stated), to_bytes succeeds with exactly 20 bytes, the
\* 1-based table index first and two zero bytes last, and from_bytes of them
\* with the same table returns an object equal to the original.
C9_ObjectLayout ==
    (/\ input.kind = "object_to_bytes" /\ pc # "call"
     /\ ObjectFieldsFit(input.obj, input.underworld_types)
     /\ InI16(input.obj.unknown_shortc))
        => /\ mid.status = "ok"
           /\ Len(mid.bytes) = 20
           /\ mid.bytes[19] = 0 /\ mid.bytes[20] = 0
           /\ LET index == mid.bytes[1] + 256 * mid.bytes[2]
              IN  /\ index >= 1 /\ index <= Len(input.underworld_types)
                  /\ input.underworld_types[index] = input.obj.underworld_type
           /\ mid.bytes[7] = (IF input.obj.unknown_bool6 THEN 1 ELSE 0)
           /\ mid.bytes[8] = (IF input.obj.unknown_bool7 THEN 1 ELSE 0)
           /\ SubSeq(mid.bytes, 9, 12) = << input.obj.unknown_char8, input.obj.unknown_char9,
                                            input.obj.unknown_chara, input.obj.unknown_charb >>
           /\ (/\ input.obj = [ObjB EXCEPT !.unknown_char8 = 0, !.unknown_char9 = 255,
                                           !.unknown_chara = 1, !.unknown_charb = 128]
               /\ input.underworld_types = << NameA, NameBB >>) =>
                 mid.bytes = << 2, 0, 0, 128, 255, 127, 1, 0, 0, 255, 1, 128,
                                255, 255, 255, 255, 255, 255, 0, 0 >>
           /\ pc # "call2" =>
                 /\ pc = "returned"
                 /\ ret.status = "ok"
                 /\ ret.obj = input.obj

C9_Witness ==
    /\ input.kind = "object_to_bytes" /\ pc = "returned"
    /\ input.obj.unknown_shortc = -1
    /\ input.obj.unknown_inte = << 65535, 65535 >>
    /\ input.obj.x_location = -32768
    /\ input.underworld_types = << NameBB, NameA >>
    /\ input.obj.underworld_type = NameA
    /\ ret.obj = input.obj

\* C10: for every input buffer from_eblb_file eventually returns a Level or
\* raises, also when the buffer ends before the zero byte that ends a name.
C10_DecodeTerminates == (input.kind = "buffer") ~> (dec # "none")

====
